---- MODULE Spec2Model ----
(***************************************************************************)
(* Stripe / SFCC B2C connector: the request handlers of                    *)
(* stripePaymentsHelper.js (generateCardsPaymentResponse,                  *)
(* BeforePaymentAuthorization, HandleAPM) and the authorizeCreditCard      *)
(* hook, as state machines over the basket, the order and the remote       *)
(* Stripe account.                                                         *)
(*                                                                         *)
(* JavaScript values are encoded as follows.  An object is a record with   *)
(* the object's member names.  null is JsNull and undefined is Undefined.  *)
(* A member that holds a string in one place and an object in another      *)
(* (responsePayload.error) wraps the string as Str(s).  Identifiers of     *)
(* remote payment intents are 1, 2, ...; Unset is the falsy value of a     *)
(* custom attribute that was never written.                                *)
(***************************************************************************)
EXTENDS Integers, Sequences, FiniteSets, TLC

\* Number of BeforePaymentAuthorization requests issued against the basket.
NumReq == 2

\* Amounts are decimals with DecimalPlaces places, from 0 to MaxAmountUnits
\* units of the last place.
DecimalPlaces == 3
MaxAmountUnits == 1600

\* Identifiers of the intents handed to generateCardsPaymentResponse.
MaxIntentId == 3

Req == 1..NumReq

Unset == 0

JsNull == [null |-> TRUE]

Undefined == [undefined |-> TRUE]

Str(s) == [string |-> s]

VARIABLES
    basket,          \* the session's current basket (BasketMgr.getCurrentBasket())
    stripe,          \* the remote account: intents created, API calls received
    pc,              \* per request: position in beforePaymentAuthorization
    paymentIntentId, \* per request: the local read at line 56
    paymentIntent,   \* per request: the local set at line 58 or 60
    e,               \* per request: the exception caught at line 80
    result,          \* per request: what the handler returned or threw
    respIn,          \* generateCardsPaymentResponse: the intent passed in
    respOut,         \* generateCardsPaymentResponse: the payload returned
    apm,             \* handleAPM: request, remote source and redirect URL
    order,           \* authorizeCreditCard: the order's persisted fields
    auth             \* authorizeCreditCard: inputs, calls made and outcome

vars == <<basket, stripe, pc, paymentIntentId, paymentIntent, e, result,
          respIn, respOut, apm, order, auth>>

bpaVars == <<basket, stripe, pc, paymentIntentId, paymentIntent, e, result>>

-----------------------------------------------------------------------------
(* Remote payment intents.                                                 *)

\* The status / next_action pairs the remote API returns: next_action is set
\* exactly when the status is requires_action.
IntentShapes ==
    { [status |-> "requires_action", next_action |-> [type |-> "use_stripe_sdk"]],
      [status |-> "requires_action", next_action |-> [type |-> "redirect_to_url"]],
      [status |-> "succeeded", next_action |-> JsNull],
      [status |-> "processing", next_action |-> JsNull] }

\* The client secret the remote API issues for intent id.
ClientSecretOf(id) == <<"pi", id, "secret">>

Intent(id, shape, review) ==
    [id |-> id, status |-> shape.status, next_action |-> shape.next_action,
     client_secret |-> ClientSecretOf(id), review |-> review]

NoIntent == [id |-> Unset]

-----------------------------------------------------------------------------
(* generateCardsPaymentResponse(intent)                                    *)

Returned(payload) == [kind |-> "returned", payload |-> payload]

Threw(name) == [kind |-> "threw", name |-> name]

NoResult == [kind |-> "none"]

\* Mutation: the next_action type is not looked at.
generateCardsPaymentResponseAnyAction(intent) ==
    IF intent.status = "requires_action"
    THEN Returned([requires_action |-> TRUE,
                   payment_intent_client_secret |-> intent.client_secret])
    ELSE IF intent.status = "succeeded"
    THEN Returned([success |-> TRUE])
    ELSE Returned([error |-> Str("Invalid PaymentIntent status")])

\* The && of line 13-16 reads next_action.type only when the status is
\* requires_action; reading .type of null throws a TypeError.
generateCardsPaymentResponse(intent) ==
    IF intent.status = "requires_action" /\ intent.next_action = JsNull
    THEN Threw("TypeError")
    ELSE IF /\ intent.status = "requires_action"
            /\ intent.next_action.type = "use_stripe_sdk"
    THEN Returned([requires_action |-> TRUE,
                   payment_intent_client_secret |-> intent.client_secret])
    ELSE IF intent.status = "succeeded"
    THEN Returned([success |-> TRUE])
    ELSE Returned([error |-> Str("Invalid PaymentIntent status")])

-----------------------------------------------------------------------------
(* Errors and the catch blocks.                                            *)

EnvelopeText == "{\"error\":{\"code\":\"card_declined\",\"message\":\"Your card was declined.\"}}"

\* Bodies a failed service call carries in callResult.errorMessage: the
\* remote API's JSON error envelope, a JSON body without an error member, and
\* the text of a gateway or transport failure.
ErrorBodies == { EnvelopeText, "{}", "<html>502 Bad Gateway</html>" }

\* JSON.parse: the value, or a SyntaxError.
JSONParse(text) ==
    CASE text = EnvelopeText ->
           [ok |-> TRUE,
            value |-> [error |-> [code |-> "card_declined",
                                  message |-> "Your card was declined."]]]
      [] text = "{}" -> [ok |-> TRUE, value |-> [empty |-> TRUE]]
      [] OTHER -> [ok |-> FALSE]

\* An Error thrown by the cartridge's own code or by the platform.
LocalError(message) == [callResult |-> JsNull, message |-> message]

\* The error the service layer throws for a failed remote call.
ServiceError(body) ==
    [callResult |-> [errorMessage |-> body], message |-> "Stripe service call failed"]

NoError == [none |-> TRUE]

\* Lines 80-96: the catch block of beforePaymentAuthorization.
CatchBeforePaymentAuthorization(err) ==
    IF err.callResult # JsNull
    THEN LET o == JSONParse(err.callResult.errorMessage) IN
         IF ~o.ok THEN Threw("SyntaxError")
         ELSE IF "error" \notin DOMAIN o.value THEN Threw("TypeError")
         ELSE Returned([error |-> [code |-> o.value.error.code,
                                   message |-> o.value.error.message]])
    ELSE Returned([error |-> [message |-> err.message]])

-----------------------------------------------------------------------------
(* beforePaymentAuthorization()                                            *)

PaymentMethods == {"none", "CREDIT_CARD", "STRIPE_APM_METHODS"}

NoBasket ==
    [exists |-> FALSE, paymentMethod |-> "none",
     stripePaymentIntentID |-> Unset, stripeIsPaymentIntentInReview |-> FALSE]

Baskets ==
    {NoBasket} \cup
    { [exists |-> TRUE, paymentMethod |-> m,
       stripePaymentIntentID |-> Unset, stripeIsPaymentIntentInReview |-> FALSE]
      : m \in PaymentMethods }

\* Line 54.
IsCardInstrument(b) == b.paymentMethod # "none" /\ b.paymentMethod = "CREDIT_CARD"

\* Mutation: a stored identifier is ignored and a new intent is always created.
HasStoredIntentNever(id) == FALSE

\* Line 57: if (paymentIntentId).
HasStoredIntent(id) == id # Unset

\* Mutation: compare-and-set, an identifier already stored is kept.
WriteIntentIdIfUnset(b, id) ==
    IF b.stripePaymentIntentID # Unset THEN b
    ELSE [b EXCEPT !.stripePaymentIntentID = id]

\* Lines 62-64: the committed transaction.
WriteIntentId(b, id) == [b EXCEPT !.stripePaymentIntentID = id]

\* Mutation: the flag is assigned the intent's review state.
WriteReviewFlagAssign(b, intent) ==
    [b EXCEPT !.stripeIsPaymentIntentInReview = intent.review]

\* Lines 67-71: the committed transaction, when there is one.
WriteReviewFlag(b, intent) ==
    IF intent.review THEN [b EXCEPT !.stripeIsPaymentIntentInReview = TRUE]
    ELSE b

Finish(r, res, err) ==
    /\ result' = [result EXCEPT ![r] = res]
    /\ e' = [e EXCEPT ![r] = err]
    /\ pc' = [pc EXCEPT ![r] = "done"]

Fail(r, err) == Finish(r, CatchBeforePaymentAuthorization(err), err)

\* Lines 47-56 and 74-79: basket and instrument lookup, the read of the
\* stored identifier.
Begin(r) ==
    /\ pc[r] = "idle"
    /\ \/ /\ ~basket.exists
          /\ Finish(r, Returned(Undefined), NoError)
          /\ UNCHANGED paymentIntentId
       \/ /\ basket.exists
          /\ Fail(r, LocalError("getStripePaymentInstrument failed"))
          /\ UNCHANGED paymentIntentId
       \/ /\ basket.exists
          /\ ~IsCardInstrument(basket)
          /\ Finish(r, Returned([success |-> TRUE]), NoError)
          /\ UNCHANGED paymentIntentId
       \/ /\ basket.exists
          /\ IsCardInstrument(basket)
          /\ paymentIntentId' = [paymentIntentId EXCEPT ![r] = basket.stripePaymentIntentID]
          /\ pc' = [pc EXCEPT ![r] = "call"]
          /\ UNCHANGED <<e, result>>
    /\ UNCHANGED <<basket, stripe, paymentIntent>>
    /\ UNCHANGED <<respIn, respOut, apm, order, auth>>

\* Line 58: checkoutHelper.confirmPaymentIntent(paymentIntentId).
Confirm(r) ==
    /\ pc[r] = "call"
    /\ HasStoredIntent(paymentIntentId[r])
    /\ stripe' = [stripe EXCEPT !.calls = @ + 1]
    /\ \/ \E shape \in IntentShapes, review \in BOOLEAN :
            /\ paymentIntent' = [paymentIntent EXCEPT
                                   ![r] = Intent(paymentIntentId[r], shape, review)]
            /\ pc' = [pc EXCEPT ![r] = "review"]
            /\ UNCHANGED <<e, result>>
       \/ \E body \in ErrorBodies :
            /\ Fail(r, ServiceError(body))
            /\ UNCHANGED paymentIntent
    /\ UNCHANGED <<basket, paymentIntentId>>
    /\ UNCHANGED <<respIn, respOut, apm, order, auth>>

\* Line 60: checkoutHelper.createPaymentIntent(stripePaymentInstrument).
Create(r) ==
    /\ pc[r] = "call"
    /\ ~HasStoredIntent(paymentIntentId[r])
    /\ \/ \E shape \in IntentShapes, review \in BOOLEAN :
            /\ stripe' = [stripe EXCEPT !.calls = @ + 1, !.created = @ + 1]
            /\ paymentIntent' = [paymentIntent EXCEPT
                                   ![r] = Intent(stripe.created + 1, shape, review)]
            /\ pc' = [pc EXCEPT ![r] = "write"]
            /\ UNCHANGED <<e, result>>
       \/ \E body \in ErrorBodies :
            /\ stripe' = [stripe EXCEPT !.calls = @ + 1]
            /\ Fail(r, ServiceError(body))
            /\ UNCHANGED paymentIntent
    /\ UNCHANGED <<basket, paymentIntentId>>
    /\ UNCHANGED <<respIn, respOut, apm, order, auth>>

\* Lines 62-64: Transaction.wrap commits the write, or rolls back and throws.
WriteId(r) ==
    /\ pc[r] = "write"
    /\ \/ /\ basket' = WriteIntentId(basket, paymentIntent[r].id)
          /\ pc' = [pc EXCEPT ![r] = "review"]
          /\ UNCHANGED <<e, result>>
       \/ /\ Fail(r, LocalError("Transaction failed"))
          /\ UNCHANGED basket
    /\ UNCHANGED <<stripe, paymentIntentId, paymentIntent>>
    /\ UNCHANGED <<respIn, respOut, apm, order, auth>>

\* Lines 67-73: the review flag's own transaction, then the response.
Review(r) ==
    /\ pc[r] = "review"
    /\ \/ /\ basket' = WriteReviewFlag(basket, paymentIntent[r])
          /\ Finish(r, generateCardsPaymentResponse(paymentIntent[r]), NoError)
       \/ /\ paymentIntent[r].review
          /\ Fail(r, LocalError("Transaction failed"))
          /\ UNCHANGED basket
    /\ UNCHANGED <<stripe, paymentIntentId, paymentIntent>>
    /\ UNCHANGED <<respIn, respOut, apm, order, auth>>

\* No request is between its first and its last step.
NoneRunning == \A r \in Req : pc[r] \in {"idle", "done"}

\* Requests that do not overlap: a request starts when none is running.
BeginInTurn(r) == NoneRunning /\ Begin(r)

OtherInit ==
    /\ respIn = NoIntent
    /\ respOut = NoResult
    /\ apm = [pc |-> "idle"]
    /\ order = [stripePaymentIntentID |-> Unset, paymentStatus |-> "NOT_PAID"]
    /\ auth = [pc |-> "idle"]

Init ==
    /\ basket \in Baskets
    /\ stripe = [created |-> 0, calls |-> 0]
    /\ pc = [r \in Req |-> "idle"]
    /\ paymentIntentId = [r \in Req |-> Unset]
    /\ paymentIntent = [r \in Req |-> NoIntent]
    /\ e = [r \in Req |-> NoError]
    /\ result = [r \in Req |-> NoResult]
    /\ OtherInit

\* Requests of concurrent sessions on the same basket: the platform runs each
\* request on its own thread and takes no lock on the basket.
Next ==
    \E r \in Req :
        \/ Begin(r)
        \/ Confirm(r)
        \/ Create(r)
        \/ WriteId(r)
        \/ Review(r)

Spec == Init /\ [][Next]_vars

\* Requests issued one after the other.
NextInTurn ==
    \E r \in Req :
        \/ BeginInTurn(r)
        \/ Confirm(r)
        \/ Create(r)
        \/ WriteId(r)
        \/ Review(r)

SpecInTurn == Init /\ [][NextInTurn]_vars

-----------------------------------------------------------------------------
(* Properties of beforePaymentAuthorization.                               *)

\* Request r takes the step of the handler that leaves position p.
Leaves(r, p) == pc[r] = p /\ pc'[r] # p

\* C1: with requests that do not overlap, a request that read no stored
\* identifier calls create and never confirm, and the identifier its
\* transaction then writes is that of the intent it has just created; a
\* request that read a stored identifier confirms the intent of that
\* identifier and creates none; and from the moment an identifier is stored
\* it never changes and no further intent is created.
C1_IdempotentIntent ==
    [][\A r \in Req :
         /\ (Leaves(r, "call") /\ paymentIntentId[r] = Unset) =>
              /\ pc'[r] \in {"write", "done"}
              /\ pc'[r] = "write" =>
                   /\ stripe'.created = stripe.created + 1
                   /\ paymentIntent'[r].id = stripe'.created
              /\ pc'[r] = "done" => stripe'.created = stripe.created
         /\ (Leaves(r, "call") /\ paymentIntentId[r] # Unset) =>
              /\ pc'[r] \in {"review", "done"}
              /\ stripe'.created = stripe.created
              /\ pc'[r] = "review" => paymentIntent'[r].id = paymentIntentId[r]
         /\ (Leaves(r, "write") /\ pc'[r] = "review") =>
              basket'.stripePaymentIntentID = paymentIntent[r].id
         /\ pc[r] \in {"call", "write", "review"} =>
              \/ paymentIntentId[r] = basket.stripePaymentIntentID
              \/ pc[r] = "review" /\ paymentIntent[r].id = basket.stripePaymentIntentID
         /\ basket.stripePaymentIntentID # Unset =>
              /\ basket'.stripePaymentIntentID = basket.stripePaymentIntentID
              /\ stripe'.created = stripe.created
      ]_vars

\* C1 witness: after a first request created intent 1 and stored it, a later
\* request has confirmed intent 1 and returned, and one intent exists.
C1_Witness ==
    \E r1, r2 \in Req :
        /\ r1 # r2
        /\ pc[r1] = "done" /\ pc[r2] = "done"
        /\ paymentIntentId[r1] = Unset /\ paymentIntent[r1].id = 1
        /\ paymentIntentId[r2] = 1 /\ paymentIntent[r2].id = 1
        /\ e[r1] = NoError /\ e[r2] = NoError
        /\ basket.stripePaymentIntentID = 1
        /\ stripe.created = 1

\* C2: nothing orders the requests of concurrent sessions: the write of a
\* request that read no identifier stores the identifier of its own intent
\* whatever is stored by then, and every request that read no identifier and
\* got past create holds an intent of its own.
C2_LaterWriteOverwrites ==
    [][\A r \in Req :
         /\ (Leaves(r, "write") /\ pc'[r] = "review") =>
              basket'.stripePaymentIntentID = paymentIntent[r].id
         /\ (Leaves(r, "call") /\ pc'[r] = "write") =>
              /\ stripe'.created = stripe.created + 1
              /\ \A q \in Req \ {r} : paymentIntent'[q].id # paymentIntent'[r].id
      ]_vars

\* C2 witness: two requests both read the identifier as unset, both created
\* an intent, both committed their write, and the basket holds the later one:
\* two intents exist for one basket.
C2_Witness ==
    \E r1, r2 \in Req :
        /\ r1 # r2
        /\ paymentIntentId[r1] = Unset /\ paymentIntentId[r2] = Unset
        /\ pc[r1] = "review" /\ pc[r2] = "review"
        /\ paymentIntent[r1].id = 1 /\ paymentIntent[r2].id = 2
        /\ stripe.created = 2
        /\ basket.stripePaymentIntentID \in {1, 2}

\* The payload the claim gives for an error caught by the handler.
C4_ExpectedPayload(err) ==
    IF err.callResult # JsNull
    THEN [error |-> [code |-> "card_declined", message |-> "Your card was declined."]]
    ELSE [error |-> [message |-> err.message]]

\* C4: every request ends by returning, never by throwing; a caught error
\* with a callResult gives {error: {code, message}} from the remote envelope
\* and any other caught error gives {error: {message: e.message}}.  (What a
\* request without a basket returns is the subject of C5.)
C4_AlwaysReturnsPayload ==
    \A r \in Req :
        pc[r] = "done" =>
            /\ result[r].kind = "returned"
            /\ e[r] # NoError => result[r].payload = C4_ExpectedPayload(e[r])

\* C5: a request on a session without a basket, or on a basket without a
\* CREDIT_CARD Stripe instrument, returns {success: true}, calls no remote
\* API and leaves the basket as it was.
C5_NoBasketSuccess ==
    \A r \in Req :
        (pc[r] = "done" /\ e[r] = NoError /\ ~(basket.exists /\ IsCardInstrument(basket))) =>
            /\ result[r] = Returned([success |-> TRUE])
            /\ stripe.calls = 0
            /\ basket \in Baskets

-----------------------------------------------------------------------------
(* generateCardsPaymentResponse as a function of its argument.             *)

\* Intents as the remote API returns them, over all its statuses.
ResponseShapes ==
    { [status |-> "requires_action", next_action |-> [type |-> t]]
      : t \in {"use_stripe_sdk", "redirect_to_url", "alipay_handle_redirect"} }
    \cup
    { [status |-> st, next_action |-> JsNull]
      : st \in {"requires_payment_method", "requires_confirmation", "processing",
                "requires_capture", "canceled", "succeeded"} }

ResponseIntents ==
    { Intent(id, shape, review)
      : id \in 1..MaxIntentId, shape \in ResponseShapes, review \in BOOLEAN }

GenerateResponse ==
    /\ respOut = NoResult
    /\ respOut' = generateCardsPaymentResponse(respIn)
    /\ UNCHANGED <<bpaVars, respIn, apm, order, auth>>

IdleRequests ==
    /\ basket = NoBasket
    /\ stripe = [created |-> 0, calls |-> 0]
    /\ pc = [r \in Req |-> "idle"]
    /\ paymentIntentId = [r \in Req |-> Unset]
    /\ paymentIntent = [r \in Req |-> NoIntent]
    /\ e = [r \in Req |-> NoError]
    /\ result = [r \in Req |-> NoResult]

InitResponse ==
    /\ IdleRequests
    /\ respIn \in ResponseIntents
    /\ respOut = NoResult
    /\ apm = [pc |-> "idle"]
    /\ order = [stripePaymentIntentID |-> Unset, paymentStatus |-> "NOT_PAID"]
    /\ auth = [pc |-> "idle"]

NextResponse == GenerateResponse

SpecResponse == InitResponse /\ [][NextResponse]_vars

\* C3: the payload is {requires_action: true, payment_intent_client_secret}
\* with the intent's own secret for requires_action with use_stripe_sdk,
\* {success: true} for succeeded, and {error: 'Invalid PaymentIntent status'}
\* for every other intent, requires_action with another next_action included;
\* the function returns for every intent.
C3_ThreePayloads ==
    respOut # NoResult =>
        /\ respOut.kind = "returned"
        /\ CASE respIn.status = "succeeded" ->
                  respOut.payload = [success |-> TRUE]
             [] respIn.status = "requires_action"
                /\ respIn.next_action = [type |-> "use_stripe_sdk"] ->
                  respOut.payload =
                      [requires_action |-> TRUE,
                       payment_intent_client_secret |-> respIn.client_secret]
             [] OTHER ->
                  respOut.payload = [error |-> Str("Invalid PaymentIntent status")]

\* C3 witness: an intent that requires an action other than use_stripe_sdk
\* got the invalid-status payload.
C3_Witness ==
    /\ respIn.status = "requires_action"
    /\ respIn.next_action = [type |-> "redirect_to_url"]
    /\ respOut = Returned([error |-> Str("Invalid PaymentIntent status")])

-----------------------------------------------------------------------------
(* handleAPM(sfra)                                                         *)

\* URLUtils.url(action, name, value, ...).
Url(action, params) == [action |-> action, params |-> params]

EmptyUrl == Url("", <<>>)

\* The value of a request parameter that is absent.
NullParam == "null"

SourceSecrets == {"src_client_secret_A", "src_client_secret_B"}

SourceStatuses == {"chargeable", "pending", "failed", "canceled", "consumed"}

\* What stripeService.sources.retrieve(sourceId) does: returns the source or
\* throws the service error.
Retrievals ==
    { [ok |-> TRUE, client_secret |-> cs, status |-> st, body |-> ""]
      : cs \in SourceSecrets, st \in SourceStatuses }
    \cup
    { [ok |-> FALSE, client_secret |-> "", status |-> "", body |-> b]
      : b \in ErrorBodies }

\* Lines 136-140: the catch block.
ApmErrorUrl(sfra, err) ==
    IF sfra
    THEN Url("Checkout-Begin", <<"stage", "payment", "apm_return_error", err.message>>)
    ELSE Url("COBilling-Start", <<"apm_return_error", err.message>>)

\* Lines 130-134.
ApmSuccessUrl(sfra) ==
    IF sfra THEN Url("Checkout-Begin", <<"stage", "placeOrder">>)
    ELSE Url("COSummary-Start", <<>>)

\* Mutation: the client secret of the request is not compared.
handleAPMNoSecretCheck(sfra, sourceClientSecret, retrieval) ==
    IF ~retrieval.ok
    THEN ApmErrorUrl(sfra, ServiceError(retrieval.body))
    ELSE IF retrieval.status \notin {"chargeable", "pending"}
    THEN ApmErrorUrl(sfra, LocalError("Source not authorized."))
    ELSE ApmSuccessUrl(sfra)

\* Lines 116-143.
handleAPM(sfra, sourceClientSecret, retrieval) ==
    IF ~retrieval.ok
    THEN ApmErrorUrl(sfra, ServiceError(retrieval.body))
    ELSE IF retrieval.client_secret # sourceClientSecret
    THEN ApmErrorUrl(sfra, LocalError("Source client secret mismatch"))
    ELSE IF retrieval.status \notin {"chargeable", "pending"}
    THEN ApmErrorUrl(sfra, LocalError("Source not authorized."))
    ELSE ApmSuccessUrl(sfra)

HandleAPM ==
    /\ apm.pc = "idle"
    /\ apm' = [apm EXCEPT
                 !.pc = "done",
                 !.redirectUrl = handleAPM(apm.sfra, apm.client_secret, apm.retrieval)]
    /\ UNCHANGED <<bpaVars, respIn, respOut, order, auth>>

InitAPM ==
    /\ IdleRequests
    /\ respIn = NoIntent
    /\ respOut = NoResult
    /\ apm \in [pc : {"idle"}, sfra : BOOLEAN,
                client_secret : SourceSecrets \cup {NullParam},
                retrieval : Retrievals, redirectUrl : {EmptyUrl}]
    /\ order = [stripePaymentIntentID |-> Unset, paymentStatus |-> "NOT_PAID"]
    /\ auth = [pc |-> "idle"]

NextAPM == HandleAPM

SpecAPM == InitAPM /\ [][NextAPM]_vars

\* The names of the parameters of a URL.
UrlParamNames(url) ==
    { url.params[i] : i \in { j \in 1..Len(url.params) : j % 2 = 1 } }

C6_IsSuccessUrl(url, sfra) ==
    IF sfra THEN url = Url("Checkout-Begin", <<"stage", "placeOrder">>)
    ELSE url = Url("COSummary-Start", <<>>)

C6_IsPaymentStepErrorUrl(url, sfra) ==
    /\ "apm_return_error" \in UrlParamNames(url)
    /\ IF sfra
       THEN url.action = "Checkout-Begin" /\ SubSeq(url.params, 1, 2) = <<"stage", "payment">>
       ELSE url.action = "COBilling-Start"

\* C6: the handler returns the success URL exactly when the source was
\* retrieved, its client secret equals the request's client_secret parameter
\* and its status is chargeable or pending; otherwise it returns the URL of
\* the payment step with an apm_return_error parameter.
C6_SuccessUrlIffVerified ==
    apm.pc = "done" =>
        LET verified == /\ apm.retrieval.ok
                        /\ apm.retrieval.client_secret = apm.client_secret
                        /\ apm.retrieval.status \in {"chargeable", "pending"}
        IN /\ C6_IsSuccessUrl(apm.redirectUrl, apm.sfra) <=> verified
           /\ ~verified => C6_IsPaymentStepErrorUrl(apm.redirectUrl, apm.sfra)

\* C6 witness: a chargeable source whose client secret is not the one of the
\* request was answered with the payment-step URL.
C6_Witness ==
    /\ apm.pc = "done"
    /\ apm.retrieval.ok
    /\ apm.retrieval.status = "chargeable"
    /\ apm.retrieval.client_secret = "src_client_secret_A"
    /\ apm.client_secret = "src_client_secret_B"
    /\ apm.redirectUrl.params =
           <<"stage", "payment", "apm_return_error", "Source client secret mismatch">>

-----------------------------------------------------------------------------
(* authorizeCreditCard(order, paymentInstrument, cvc)                      *)

RECURSIVE Pow10(_)
\* Math.pow(10, n) for a fraction-digit count n.
Pow10(n) == IF n = 0 THEN 1 ELSE 10 * Pow10(n - 1)

\* dw.util.Currency.getCurrency(code).getDefaultFractionDigits().
Currencies == {"JPY", "USD", "KWD"}

DefaultFractionDigits(code) ==
    CASE code = "JPY" -> 0
      [] code = "USD" -> 2
      [] code = "KWD" -> 3

\* String.prototype.toLowerCase on a currency code.
ToLowerCase(code) ==
    CASE code = "JPY" -> "jpy"
      [] code = "USD" -> "usd"
      [] code = "KWD" -> "kwd"

\* Mutation: the amount is always taken to be in hundredths.
OrderAmountInHundredths(units, digits) ==
    (2 * units * 100 + Pow10(DecimalPlaces)) \div (2 * Pow10(DecimalPlaces))

\* Lines 34-35: Math.round(amount.value * multiplier), for the amount.value
\* units / 10^DecimalPlaces; Math.round(x) is floor(x + 1/2).
OrderAmount(units, digits) ==
    (2 * units * Pow10(digits) + Pow10(DecimalPlaces)) \div (2 * Pow10(DecimalPlaces))

\* Lines 93-101: the catch block.  The message is e.message unless the error
\* carries a callResult, whose errorMessage is then parsed.
CatchAuthorizeCreditCard(err) ==
    IF err.callResult # JsNull
    THEN LET o == JSONParse(err.callResult.errorMessage) IN
         IF ~o.ok THEN Threw("SyntaxError")
         ELSE IF "error" \notin DOMAIN o.value THEN Threw("TypeError")
         ELSE Returned([status |-> "ERROR", message |-> o.value.error.message])
    ELSE Returned([status |-> "ERROR", message |-> err.message])

\* Mutation: the two writes are not rolled back together, the identifier
\* stays written when the payment status could not be set.
WrapOrderWritesNoRollback(o, id, commits) ==
    IF commits
    THEN [o EXCEPT !.stripePaymentIntentID = id, !.paymentStatus = "PAID"]
    ELSE [o EXCEPT !.stripePaymentIntentID = id]

\* Lines 86-89: Transaction.wrap around both writes commits both, or rolls
\* both back and throws.
WrapOrderWrites(o, id, commits) ==
    IF commits
    THEN [o EXCEPT !.stripePaymentIntentID = id, !.paymentStatus = "PAID"]
    ELSE o

\* What a remote create call does: returns the resource or throws.
RemoteOutcomes ==
    { [ok |-> TRUE, shape |-> sh, body |-> ""] : sh \in IntentShapes }
    \cup
    { [ok |-> FALSE, shape |-> CHOOSE sh \in IntentShapes : TRUE, body |-> b]
      : b \in ErrorBodies }

PaymentMethodCall == [api |-> "paymentMethods.create"]

PaymentIntentCall(amount, currency) ==
    [api |-> "paymentIntents.create", amount |-> amount, currency |-> currency]

\* Lines 27-103 for the amount a, the outcomes pm and pi of the two remote
\* calls and the outcome of the transaction: the order after the call, the
\* remote calls made in order, the intent obtained and what the hook returned
\* or threw.
authorizeCreditCard(o, a, pm, pi, commits) ==
    LET orderAmount == OrderAmount(a.units, DefaultFractionDigits(a.currencyCode))
        piCall == PaymentIntentCall(orderAmount, ToLowerCase(a.currencyCode))
        intent == Intent(1, pi.shape, FALSE)
        failed(calls, err, got) ==
            [order |-> o, calls |-> calls, paymentIntent |-> got,
             e |-> err, outcome |-> CatchAuthorizeCreditCard(err)]
    IN
    IF ~a.available
    THEN failed(<<>>, LocalError("paymentInstrument.amount not available"), NoIntent)
    ELSE IF ~pm.ok
    THEN failed(<<PaymentMethodCall>>, ServiceError(pm.body), NoIntent)
    ELSE IF ~pi.ok
    THEN failed(<<PaymentMethodCall, piCall>>, ServiceError(pi.body), NoIntent)
    ELSE IF intent.status # "succeeded"
    THEN failed(<<PaymentMethodCall, piCall>>,
                LocalError("Transaction auhtorization was not successful"), intent)
    ELSE IF ~commits
    THEN [order |-> WrapOrderWrites(o, intent.id, FALSE),
          calls |-> <<PaymentMethodCall, piCall>>, paymentIntent |-> intent,
          e |-> LocalError("Transaction failed"),
          outcome |-> CatchAuthorizeCreditCard(LocalError("Transaction failed"))]
    ELSE [order |-> WrapOrderWrites(o, intent.id, TRUE),
          calls |-> <<PaymentMethodCall, piCall>>, paymentIntent |-> intent,
          e |-> NoError, outcome |-> Returned([status |-> "OK"])]

AuthorizeCreditCard ==
    /\ auth.pc = "idle"
    /\ \E pm \in RemoteOutcomes, pi \in RemoteOutcomes, commits \in BOOLEAN :
         LET run == authorizeCreditCard(order, auth.amount, pm, pi, commits) IN
         /\ order' = run.order
         /\ auth' = [pc |-> "done", amount |-> auth.amount, calls |-> run.calls,
                     paymentIntent |-> run.paymentIntent, e |-> run.e,
                     outcome |-> run.outcome]
    /\ UNCHANGED <<bpaVars, respIn, respOut, apm>>

Amounts ==
    [available : BOOLEAN, units : 0..MaxAmountUnits, currencyCode : Currencies]

InitAuth ==
    /\ IdleRequests
    /\ respIn = NoIntent
    /\ respOut = NoResult
    /\ apm = [pc |-> "idle"]
    /\ order \in [stripePaymentIntentID : {Unset}, paymentStatus : {"NOT_PAID", "PART_PAID"}]
    /\ auth \in [pc : {"idle"}, amount : Amounts, calls : {<<>>},
                 paymentIntent : {NoIntent}, e : {NoError}, outcome : {NoResult}]

NextAuth == AuthorizeCreditCard

SpecAuth == InitAuth /\ [][NextAuth]_vars

\* The hook has returned with the order's identifier and payment status both
\* written.
C7_BothApplied ==
    /\ order'.stripePaymentIntentID = auth'.paymentIntent.id
    /\ order'.stripePaymentIntentID # Unset
    /\ order'.paymentStatus = "PAID"

\* C7: a call of the hook either writes both the intent identifier and the
\* PAID payment status or leaves the order as it was; it writes them only for
\* an intent whose status is succeeded; it returns Status.OK only when both
\* were written, and whenever it ends otherwise the order is as it was.
C7_PaidAndIdTogether ==
    [][auth'.pc = "done" =>
         /\ order' = order \/ C7_BothApplied
         /\ order' # order => auth'.paymentIntent.status = "succeeded"
         /\ auth'.outcome = Returned([status |-> "OK"]) => C7_BothApplied /\ order' # order
         /\ auth'.outcome # Returned([status |-> "OK"]) => order' = order
      ]_vars

\* C7 witness: the intent succeeded, the transaction failed, the hook
\* returned Status.ERROR and the order is neither paid nor tagged.
C7_Witness ==
    /\ auth.pc = "done"
    /\ auth.paymentIntent # NoIntent
    /\ auth.paymentIntent.status = "succeeded"
    /\ auth.outcome = Returned([status |-> "ERROR", message |-> "Transaction failed"])
    /\ order.stripePaymentIntentID = Unset
    /\ order.paymentStatus = "PART_PAID"

\* The message the claim gives for an error caught by the hook.
C8_ExpectedMessage(err) ==
    IF err.callResult # JsNull THEN "Your card was declined." ELSE err.message

\* C8: the hook always returns and never throws; every failure gives
\* Status.ERROR with the remote envelope's error.message for an error with a
\* callResult and the error's own message otherwise; paymentIntents.create
\* is not called after paymentMethods.create failed and no call is repeated.
C8_NeverThrows ==
    auth.pc = "done" =>
        /\ auth.outcome.kind = "returned"
        /\ auth.e # NoError =>
             auth.outcome = Returned([status |-> "ERROR",
                                      message |-> C8_ExpectedMessage(auth.e)])
        /\ Len(auth.calls) <= 2
        /\ \A i \in 1..Len(auth.calls) :
             auth.calls[i].api = (IF i = 1 THEN "paymentMethods.create"
                                  ELSE "paymentIntents.create")

====
